---------------------------- MODULE Spec2Model ----------------------------
(***************************************************************************)
(* The quiz pipeline of backend/main.py: POST /quiz (fetch, prompt,        *)
(* generation call, reply parsing and validation, fallback generator,      *)
(* option shuffler, history store), GET /history and GET /quiz/{id}.       *)
(*                                                                         *)
(* Python values whose type the code inspects at run time (the parsed LLM  *)
(* reply and everything inside it) are tagged records [py |-> type, v |->  *)
(* payload]; a Python dict is a TLA+ record whose DOMAIN is its key set.   *)
(* Python strings are TLA+ strings, so len(), slicing and concatenation    *)
(* are computed on the real characters.                                    *)
(***************************************************************************)
EXTENDS Integers, Sequences, FiniteSets, TLC

VARIABLES
    GEMINI_API_KEY,   \* main.py:28, read once at start-up
    history,          \* the quiz_history table, in insertion order
    pc,               \* position of the POST /quiz handler
    data,             \* the QuizRequest of the request being handled
    response,         \* main.py:88, what requests.get returned or raised
    article_title,    \* main.py:100
    article_text,     \* main.py:107
    gemini_response,  \* main.py:195, what requests.post returned or raised
    quiz_json,        \* main.py:171, 218, 225, 244, 247, 251, 254, 326
    gen_calls,        \* requests.post calls made by the request being handled
    log,              \* what the request being handled has printed so far
    resp              \* the last HTTP response sent

vars == <<GEMINI_API_KEY, history, pc, data, response, article_title, article_text,
          gemini_response, quiz_json, gen_calls, log, resp>>

----------------------------------------------------------------------------
(* Bounds of the model.                                                    *)

MaxCount == 5          \* number_of_questions ranges over 1..MaxCount
MaxGood == 3           \* well-formed questions at the head of an LLM reply
MaxHistory == 2        \* SpecHistory: POST /quiz is taken while fewer records exist

----------------------------------------------------------------------------
(* Python values.                                                          *)

PyNone == [py |-> "None"]
PyInt(i) == [py |-> "int", v |-> i]
PyStr(s) == [py |-> "str", v |-> s]
PyList(xs) == [py |-> "list", v |-> xs]
PyDict(d) == [py |-> "dict", v |-> d]

\* a == b on tagged values
PyEq(a, b) == a.py = b.py /\ (a.py = "None" \/ a.v = b.v)

\* bool(x)
PyTruthy(x) ==
    CASE x.py = "None" -> FALSE
      [] x.py = "int"  -> x.v # 0
      [] x.py = "str"  -> x.v # ""
      [] x.py = "list" -> x.v # <<>>
      [] x.py = "dict" -> DOMAIN x.v # {}

\* key in x, for a string key: "true", "false" or "raise" (TypeError)
PyIn(key, x) ==
    CASE x.py = "dict" -> IF key \in DOMAIN x.v THEN "true" ELSE "false"
      [] x.py = "list" -> IF \E i \in DOMAIN x.v : PyEq(x.v[i], PyStr(key))
                          THEN "true" ELSE "false"
      [] x.py \in {"None", "int"} -> "raise"

\* len(x) raises TypeError on None and on numbers
PyLenRaises(x) == x.py \in {"None", "int"}

PyLen(x) ==
    CASE x.py = "list" -> Len(x.v)
      [] x.py = "str"  -> Len(x.v)
      [] x.py = "dict" -> Cardinality(DOMAIN x.v)

\* x[key] for a string key raises unless x is a dict that has the key
PyItemRaises(x, key) == x.py # "dict" \/ key \notin DOMAIN x.v

Min(a, b) == IF a < b THEN a ELSE b

\* s[:k]
Slice(s, k) == SubSeq(s, 1, Min(k, Len(s)))

----------------------------------------------------------------------------
(* str.strip(), str.split('.') and "\n".join on real strings.              *)

IsSpace(c) == c \in {" ", "\n", "\t", "\r"}

RECURSIVE LStrip(_)
LStrip(s) ==
    IF s # "" /\ IsSpace(SubSeq(s, 1, 1)) THEN LStrip(SubSeq(s, 2, Len(s))) ELSE s

RECURSIVE RStrip(_)
RStrip(s) ==
    IF s # "" /\ IsSpace(SubSeq(s, Len(s), Len(s)))
    THEN RStrip(SubSeq(s, 1, Len(s) - 1)) ELSE s

Strip(s) == RStrip(LStrip(s))

\* index of the first '.' of s, 0 when there is none
FindDot(s) ==
    LET dots == {i \in 1..Len(s) : SubSeq(s, i, i) = "."}
    IN  IF dots = {} THEN 0 ELSE CHOOSE i \in dots : \A j \in dots : i <= j

RECURSIVE SplitDot(_)
SplitDot(s) ==
    LET i == FindDot(s)
    IN  IF i = 0 THEN <<s>>
        ELSE <<SubSeq(s, 1, i - 1)>> \o SplitDot(SubSeq(s, i + 1, Len(s)))

RECURSIVE JoinLines(_)
JoinLines(ps) ==
    IF ps = <<>> THEN ""
    ELSE IF Len(ps) = 1 THEN ps[1]
    ELSE ps[1] \o "\n" \o JoinLines(Tail(ps))

RECURSIVE SelectSeqLonger(_, _)
SelectSeqLonger(xs, k) ==
    IF xs = <<>> THEN <<>>
    ELSE (IF Len(Strip(Head(xs))) > k THEN <<Strip(Head(xs))>> ELSE <<>>)
         \o SelectSeqLonger(Tail(xs), k)

----------------------------------------------------------------------------
(* Fetch and extraction, main.py:86-110.                                   *)

MinParagraphChars == 50
MinSentenceChars == 60
MaxCorrectChars == 120
SmallRequest == 5
FewParagraphs == 15
ManyParagraphs == 25
FewChars == 6000
ManyChars == 10000
SummaryChars == 500

DefaultTitle == "Wikipedia Article"

\* title_tag = soup.find("h1", class_="firstHeading") or soup.find("h1")
ExtractTitle(page) ==
    IF page.firstHeading # <<>> THEN Strip(page.firstHeading[1])
    ELSE IF page.h1 # <<>> THEN Strip(page.h1[1])
    ELSE DefaultTitle

num_paragraphs(n) == IF n <= SmallRequest THEN FewParagraphs ELSE ManyParagraphs
max_chars(n) == IF n <= SmallRequest THEN FewChars ELSE ManyChars

\* paragraphs = [p.get_text().strip() for p in soup.find_all("p") if len(...) > 50]
paragraphs(page) == SelectSeqLonger(page.p, MinParagraphChars)

\* article_text = "\n".join(paragraphs[:num_paragraphs])[:max_chars]
ExtractText(page, n) ==
    Slice(JoinLines(Slice(paragraphs(page), num_paragraphs(n))), max_chars(n))

DifficultyKeys == {"easy", "medium", "hard"}

----------------------------------------------------------------------------
(* Fallback generator, main.py:268-331.                                    *)

\* sentences = [s.strip() for s in article_text.split('.') if len(s.strip()) > 60][:n * 3]
sentences(text, n) == Slice(SelectSeqLonger(SplitDot(text), MinSentenceChars), n * 3)

\* the text before and after {topic} of each template
templates ==
    << <<"What does the article state about ", "?">>,
       <<"According to the article, which fact about ", " is accurate?">>,
       <<"What information is provided regarding ", "?">>,
       <<"The article mentions ", ". What is emphasized?">>,
       <<"Which statement about ", " is supported by the article?">>,
       <<"What key detail about ", " does the article include?">>,
       <<"According to the Wikipedia article, what is true about ", "?">>,
       <<"The article discusses ", ". What is highlighted?">>,
       <<"What aspect of ", " does the article specifically address?">>,
       <<"Which characteristic of ", " is described in the article?">> >>

distractor_sets ==
    << <<"Information not mentioned in the article", "An unrelated historical fact",
         "A different topic entirely">>,
       <<"Content from another subject", "An incorrect interpretation",
         "A misattributed fact">>,
       <<"Unrelated information", "A different time period", "An alternative topic">>,
       <<"Information outside the article scope", "A contradicting statement",
         "An unmentioned detail">>,
       <<"A topic not covered here", "Incorrect historical data",
         "Unrelated subject matter">> >>

GenericQuestion == "What is this Wikipedia article primarily about?"
GenericDistractors == <<"An unrelated topic", "A different subject", "Another area of study">>

StrList(xs) == PyList([i \in DOMAIN xs |-> PyStr(xs[i])])

\* CorrectOption without the ellipsis marker
CorrectOption_no_ellipsis(s) == Slice(s, MaxCorrectChars)

\* sentences[i][:120] + ("..." if len(sentences[i]) > 120 else "")
CorrectOption(s) ==
    Slice(s, MaxCorrectChars) \o (IF Len(s) > MaxCorrectChars THEN "..." ELSE "")

\* the body of the loop at main.py:299-324, for the 0-based index i
fallback_question(i, sents, title, difficulty) ==
    IF i < Len(sents)
    THEN LET template == templates[(i % Len(templates)) + 1]
             correct == CorrectOption(sents[i + 1])
             distractors == distractor_sets[(i % Len(distractor_sets)) + 1]
         IN  PyDict([question |-> template[1] \o title \o template[2],
                     options |-> StrList(<<correct>> \o distractors),
                     answer |-> PyStr(correct),
                     difficulty |-> difficulty,
                     explanation |-> "This information is stated in the article about "
                                     \o title \o "."])
    ELSE PyDict([question |-> GenericQuestion,
                 options |-> StrList(<<title>> \o GenericDistractors),
                 answer |-> PyStr(title),
                 difficulty |-> difficulty,
                 explanation |-> "The article focuses on " \o title \o "."])

\* fallback_questions without the generic questions that fill the missing slots
fallback_questions_sentences_only(text, title, difficulty, n) ==
    [j \in 1..Min(n, Len(sentences(text, n))) |->
        fallback_question(j - 1, sentences(text, n), title, difficulty)]

fallback_questions(text, title, difficulty, n) ==
    [j \in 1..n |-> fallback_question(j - 1, sentences(text, n), title, difficulty)]

DefaultTopics(title) == <<title, "Wikipedia", "General Knowledge">>

FallbackQuiz(text, title, difficulty, n) ==
    PyDict([questions |-> PyList(fallback_questions(text, title, difficulty, n)),
            related_topics |-> DefaultTopics(title)])

----------------------------------------------------------------------------
(* Reply cleaning and parsing, main.py:204-228.  A reply text is described *)
(* by what the parser can see of it: whether it sits in a ``` fence,       *)
(* whether prose surrounds the JSON, and the JSON text itself (valid, with *)
(* the value it denotes, or invalid, with or without braces).              *)

\* re.sub(r'^```(?:json)?\s*', ...), re.sub(r'\s*```$', ...)
CleanFences(raw) == [raw EXCEPT !.fenced = FALSE]

\* json.loads(raw_text) succeeds only on a bare, valid JSON text
DirectParseOk(raw) == ~raw.fenced /\ ~raw.prose /\ raw.json.valid

\* re.search(r'\{[\s\S]*\}', raw_text): the span from the first { to the last }
HasBraceSpan(raw) ==
    IF raw.json.valid THEN raw.json.value.py = "dict" ELSE raw.json.braces

\* json.loads(match.group()) succeeds when that span is a valid JSON object
ParseReply(raw0) ==
    LET raw == CleanFences(raw0)
    IN  IF DirectParseOk(raw) THEN raw.json.value
        ELSE IF HasBraceSpan(raw) /\ raw.json.valid THEN raw.json.value
        ELSE PyNone

----------------------------------------------------------------------------
(* Validation and the count rule, main.py:230-254.                         *)

\* if "options" in q and len(q["options"]) == 4 and "answer" in q
CheckQuestion(q) ==
    IF PyIn("options", q) = "raise" THEN "raise"
    ELSE IF PyIn("options", q) = "false" THEN "invalid"
    ELSE IF PyItemRaises(q, "options") THEN "raise"
    ELSE IF PyLenRaises(q.v.options) THEN "raise"
    ELSE IF PyLen(q.v.options) # 4 THEN "invalid"
    ELSE IF PyIn("answer", q) = "true" THEN "valid" ELSE "invalid"

IsValidQuestion(q) == CheckQuestion(q) = "valid"

\* valid_questions after the loop at main.py:237-241, for a list of questions
valid_questions(qs) == SelectSeq(qs, IsValidQuestion)

\* int(data.number_of_questions * 0.6); the product is exact for the counts modelled
PartialThreshold(n) == (n * 6) \div 10

SetQuestions(qj, qs) == PyDict([qj.v EXCEPT !.questions = PyList(qs)])

\* main.py:243-251
CountRule(qj, valid, n) ==
    IF Len(valid) >= n
    THEN [quiz_json |-> SetQuestions(qj, Slice(valid, n)), log |-> "using_valid"]
    ELSE IF Len(valid) >= PartialThreshold(n)
    THEN [quiz_json |-> SetQuestions(qj, valid), log |-> "only_got"]
    ELSE [quiz_json |-> PyNone, log |-> "not_enough"]

\* main.py:231-254, with the TypeError a wrong-shaped value raises caught at
\* main.py:262, which leaves quiz_json as json.loads returned it
Validate(qj, n) ==
    IF ~PyTruthy(qj) THEN [quiz_json |-> PyNone, log |-> "invalid_structure"]
    ELSE IF PyIn("questions", qj) = "raise" THEN [quiz_json |-> qj, log |-> "exception"]
    ELSE IF PyIn("questions", qj) = "false"
    THEN [quiz_json |-> PyNone, log |-> "invalid_structure"]
    ELSE IF PyItemRaises(qj, "questions") THEN [quiz_json |-> qj, log |-> "exception"]
    ELSE IF PyLenRaises(qj.v.questions) THEN [quiz_json |-> qj, log |-> "exception"]
    ELSE IF \E i \in DOMAIN qj.v.questions.v : CheckQuestion(qj.v.questions.v[i]) = "raise"
    THEN [quiz_json |-> qj, log |-> "exception"]
    ELSE CountRule(qj, valid_questions(qj.v.questions.v), n)

\* the try block at main.py:174-263 once requests.post has returned or raised
GenerationResult(outcome, n) ==
    CASE outcome.kind = "timeout" -> [quiz_json |-> PyNone, log |-> "timeout"]
      [] outcome.kind = "connection_error" -> [quiz_json |-> PyNone, log |-> "exception"]
      [] outcome.kind = "status" -> [quiz_json |-> PyNone, log |-> "api_error"]
      [] outcome.kind = "bad_envelope" -> [quiz_json |-> PyNone, log |-> "exception"]
      [] outcome.kind = "text" -> Validate(ParseReply(outcome.raw), n)

----------------------------------------------------------------------------
(* Option shuffler, main.py:49-77.  random.shuffle draws a permutation of  *)
(* the option list; the draw is an input of the model.                     *)

AllPermutations(L) ==
    {p \in [1..L -> 1..L] : \A i, j \in 1..L : p[i] = p[j] => i = j}

\* the draws considered: every permutation, or the identity and the reversal
ShuffleDraws(L, draws) ==
    IF draws = "all" THEN AllPermutations(L)
    ELSE {[i \in 1..L |-> i], [i \in 1..L |-> L + 1 - i]}

Permute(xs, p) == [i \in DOMAIN xs |-> xs[p[i]]]

\* question.get("options", [])
GetOptions(q) == IF "options" \in DOMAIN q.v THEN q.v.options ELSE PyList(<<>>)

\* question.get raises AttributeError off a dict; iterating a non-iterable raises TypeError
ShuffleRaises(q) == q.py # "dict" \/ GetOptions(q).py \in {"None", "int"}

\* ConvertOption losing the mark of the correct option
ConvertOption_unmarked(opt, correct_answer) ==
    PyDict([text |-> opt, is_correct |-> FALSE])

\* {"text": opt, "is_correct": opt == correct_answer}
ConvertOption(opt, correct_answer) ==
    PyDict([text |-> opt, is_correct |-> PyEq(opt, correct_answer)])

\* the body of the loop at main.py:51-75 for one question and one draw
shuffle_question(q, p) ==
    LET options == GetOptions(q)
    IN  IF PyTruthy(options) /\ options.v[1].py = "dict"
        THEN PyDict([q.v EXCEPT !.options = PyList(Permute(options.v, p))])
        ELSE IF "answer" \in DOMAIN q.v
        THEN LET options_list == Permute(options.v, p)
                 converted == PyList([i \in DOMAIN options_list |->
                                         ConvertOption(options_list[i], q.v.answer)])
             IN  PyDict([k \in (DOMAIN q.v \cup {"options"}) \ {"answer"} |->
                            IF k = "options" THEN converted ELSE q.v[k]])
        ELSE q

ShuffleOne(q, draws) ==
    {shuffle_question(q, p) : p \in ShuffleDraws(PyLen(GetOptions(q)), draws)}

RECURSIVE ShuffleAll(_, _)
ShuffleAll(qs, draws) ==
    IF qs = <<>> THEN {<<>>}
    ELSE {<<h>> \o t : h \in ShuffleOne(Head(qs), draws), t \in ShuffleAll(Tail(qs), draws)}

\* shuffle_options(questions) raises
shuffle_options_raises(questions) ==
    questions.py # "list" \/ \E i \in DOMAIN questions.v : ShuffleRaises(questions.v[i])

\* the lists shuffle_options(questions) can return
shuffle_options(questions, draws) == {PyList(qs) : qs \in ShuffleAll(questions.v, draws)}

----------------------------------------------------------------------------
(* History store: models.py (the quiz_history table), main.py:337-346,     *)
(* 358-382.                                                                *)

\* json.dumps / json.loads: the text is denoted by the value it encodes
json_dumps(v) == [json |-> v]
json_loads(s) == s.json

MaxId(rows) == IF rows = <<>> THEN 0
               ELSE CHOOSE m \in {rows[i].id : i \in DOMAIN rows} :
                        \A i \in DOMAIN rows : rows[i].id <= m

\* id = Column(Integer, primary_key=True): the store assigns the next row id
NextId(rows) == MaxId(rows) + 1

QuizHistory(rows, url, title, payload, summary) ==
    [id |-> NextId(rows), url |-> url, title |-> title,
     quiz_json |-> payload, summary |-> summary]

RemoveAt(xs, i) == SubSeq(xs, 1, i - 1) \o SubSeq(xs, i + 1, Len(xs))

\* OrderByIdDesc without the ordering: the rows as stored, oldest first
OrderByIdAsc(rows) == rows

\* order_by(QuizHistory.id.desc())
RECURSIVE OrderByIdDesc(_)
OrderByIdDesc(rows) ==
    IF rows = <<>> THEN <<>>
    ELSE LET i == CHOOSE k \in DOMAIN rows : rows[k].id = MaxId(rows)
         IN  <<rows[i]>> \o OrderByIdDesc(RemoveAt(rows, i))

\* main.py:360-369
get_history(rows) ==
    LET records == OrderByIdDesc(rows)
    IN  [i \in DOMAIN records |->
            [url |-> records[i].url, title |-> records[i].title,
             created_at |-> ToString(records[i].id),
             quiz_data |-> json_loads(records[i].quiz_json)]]

\* main.py:373-382
get_quiz_detail(rows, quiz_id) ==
    LET found == SelectSeq(rows, LAMBDA r : r.id = quiz_id)
    IN  IF found = <<>>
        THEN [op |-> "GET /quiz/{id}", status |-> 404, detail |-> "Quiz not found"]
        ELSE [op |-> "GET /quiz/{id}", status |-> 200,
              body |-> [id |-> found[1].id, url |-> found[1].url,
                        title |-> found[1].title,
                        quiz_data |-> json_loads(found[1].quiz_json)]]

\* GetRelatedTopics that never reads the quiz
GetRelatedTopics_empty(qj) == <<>>

\* quiz_json.get("related_topics", [])
GetRelatedTopics(qj) ==
    IF "related_topics" \in DOMAIN qj.v THEN qj.v.related_topics ELSE <<>>

\* the return value at main.py:351-355
QuizResponse(title, qj) ==
    [op |-> "POST /quiz", status |-> 200,
     body |-> [title |-> title, questions |-> qj.v.questions,
               related_topics |-> GetRelatedTopics(qj)]]

HttpError(code, detail) == [op |-> "POST /quiz", status |-> code, detail |-> detail]

----------------------------------------------------------------------------
(* Inputs: the pages a fetch can return, the outcomes of the generation    *)
(* call and the requests.                                                  *)

S30 == "Short note on it the of riverx"
S60 == "Exactly sixty the of river valley ancient city founded empir"
S61 == "Sixty one the of river valley ancient city founded empire tra"
S75 == "Seventy five the of river valley ancient city founded empire trade scholars"
S130 == "One hundred thirty the of river valley ancient city founded empire trade scholars mountain northern region history people culturex"

ParagraphShort == S30 \o "."
ParagraphA == S61 \o ". " \o S130 \o "."
ParagraphB == S60 \o "."
ParagraphC == S75 \o "."

Page(firstHeading, h1, p) == [firstHeading |-> firstHeading, h1 |-> h1, p |-> p]

PageEmpty == Page(<<"Rome">>, <<"Rome">>, <<>>)
PageStub == Page(<<"Rome">>, <<"Rome">>, <<ParagraphShort>>)
PageTwo == Page(<<"Rome">>, <<"Rome">>, <<ParagraphA>>)
PageSixty == Page(<<"Rome">>, <<"Rome">>, <<ParagraphB>>)
PageMixed == Page(<<>>, <<" Nile ">>, <<ParagraphB, ParagraphShort, ParagraphC>>)
PageThree == Page(<<>>, <<>>, <<ParagraphC, ParagraphA>>)

FetchOutcomes(pages) ==
    {[kind |-> "connection_error"], [kind |-> "timeout"]}
    \cup {[kind |-> "response", status |-> 404, page |-> PageTwo]}
    \cup {[kind |-> "response", status |-> 200, page |-> pg] : pg \in pages}

\* FetchFails without raise_for_status
FetchFails_transport_only(o) == o.kind # "response"

\* requests.get raised, or response.raise_for_status() raises
FetchFails(o) == o.kind # "response" \/ o.status >= 400

GoodQ(i) ==
    PyDict([question |-> "Q" \o ToString(i), options |-> StrList(<<"A", "B", "C", "D">>),
            answer |-> PyStr("A"), difficulty |-> "easy", explanation |-> "E"])
NoMatchQ ==
    PyDict([question |-> "QN", options |-> StrList(<<"A", "B", "C", "D">>),
            answer |-> PyStr("a"), difficulty |-> "easy", explanation |-> "E"])
DupQ ==
    PyDict([question |-> "QD", options |-> StrList(<<"A", "A", "C", "D">>),
            answer |-> PyStr("A"), difficulty |-> "easy", explanation |-> "E"])
EmptyAnswerQ ==
    PyDict([question |-> "QE", options |-> StrList(<<"A", "B", "C", "D">>),
            answer |-> PyStr(""), difficulty |-> "easy", explanation |-> "E"])
DictOptionsQ ==
    PyDict([question |-> "QF",
            options |-> PyList(<<PyDict([text |-> PyStr("A"), is_correct |-> TRUE]),
                                 PyDict([text |-> PyStr("B"), is_correct |-> FALSE]),
                                 PyDict([text |-> PyStr("C"), is_correct |-> FALSE]),
                                 PyDict([text |-> PyStr("D"), is_correct |-> FALSE])>>),
            answer |-> PyStr("A"), difficulty |-> "easy", explanation |-> "E"])
NoAnswerQ ==
    PyDict([question |-> "QM", options |-> StrList(<<"A", "B", "C", "D">>),
            difficulty |-> "easy", explanation |-> "E"])
ThreeOptionsQ ==
    PyDict([question |-> "QT", options |-> StrList(<<"A", "B", "C">>),
            answer |-> PyStr("A"), difficulty |-> "easy", explanation |-> "E"])
NullOptionsQ ==
    PyDict([question |-> "QX", options |-> PyNone, answer |-> PyStr("A")])
IntQ == PyInt(5)

SpecialQuestions ==
    {NoMatchQ, DupQ, EmptyAnswerQ, DictOptionsQ, NoAnswerQ, ThreeOptionsQ, NullOptionsQ, IntQ}

Goods(g) == [i \in 1..g |-> GoodQ(i)]

\* g well-formed questions, then at most one special one
QuestionLists(maxGood, specials) ==
    {Goods(g) \o tail : g \in 0..maxGood, tail \in {<<>>} \cup {<<q>> : q \in specials}}

LLMTopics == <<"Italy", "Tiber">>

QuizObjects(maxGood, specials) ==
    {PyDict([questions |-> PyList(qs), related_topics |-> LLMTopics]) :
        qs \in QuestionLists(maxGood, specials)}
    \cup {PyDict([questions |-> PyList(qs)]) : qs \in QuestionLists(maxGood, specials)}

WrongShapes ==
    {PyInt(5), PyInt(0), PyList(<<>>), PyList(<<PyStr("questions")>>),
     PyDict([related_topics |-> LLMTopics]),
     PyDict([questions |-> PyInt(5)]), PyDict([questions |-> PyNone])}

RawText(fenced, prose, json) == [fenced |-> fenced, prose |-> prose, json |-> json]
ValidJson(value) == [valid |-> TRUE, value |-> value]
InvalidJson(braces) == [valid |-> FALSE, braces |-> braces]

\* each value bare, each in a code fence, each inside prose; and texts that are no JSON
Replies(values) ==
    {RawText(FALSE, FALSE, ValidJson(x)) : x \in values}
    \cup {RawText(TRUE, FALSE, ValidJson(x)) : x \in values}
    \cup {RawText(FALSE, TRUE, ValidJson(x)) : x \in values}
    \cup {RawText(FALSE, FALSE, InvalidJson(b)) : b \in BOOLEAN}

GenOutcomes(values) ==
    {[kind |-> "timeout"], [kind |-> "connection_error"],
     [kind |-> "status", status |-> 429], [kind |-> "bad_envelope"]}
    \cup {[kind |-> "text", raw |-> r] : r \in Replies(values)}

\* Spec: every page and reply above, for requests made to an empty store
PipelineWorld ==
    [urls |-> {"https://en.wikipedia.org/wiki/Rome"},
     difficulties |-> {"easy", "extreme"},
     counts |-> 1..MaxCount,
     fetches |-> FetchOutcomes({PageEmpty, PageStub, PageTwo, PageSixty, PageMixed, PageThree}),
     generations |-> GenOutcomes(QuizObjects(MaxGood, SpecialQuestions) \cup WrongShapes),
     draws |-> "two",
     cap |-> 1]

\* SpecHistory: few pages and replies, for requests made one after the other
HistoryWorld ==
    [urls |-> {"https://en.wikipedia.org/wiki/Rome", "https://en.wikipedia.org/wiki/Nile"},
     difficulties |-> {"easy"},
     counts |-> {1},
     fetches |-> FetchOutcomes({PageStub, PageSixty}),
     generations |-> {[kind |-> "timeout"],
                      [kind |-> "text",
                       raw |-> RawText(FALSE, FALSE,
                                       ValidJson(PyDict([questions |-> PyList(Goods(1))])))]},
     draws |-> "two",
     cap |-> MaxHistory]

Requests(W) ==
    {[url |-> u, difficulty |-> d, number_of_questions |-> n] :
        u \in W.urls, d \in W.difficulties, n \in W.counts}

----------------------------------------------------------------------------
(* State machine.                                                          *)

NoRequest == [url |-> "", difficulty |-> "", number_of_questions |-> 0]
NoOutcome == [kind |-> "none"]
NoResponse == [op |-> "", status |-> 0]

Init ==
    /\ GEMINI_API_KEY \in {PyNone, PyStr("key")}
    /\ history = <<>>
    /\ pc = "idle"
    /\ data = NoRequest
    /\ response = NoOutcome
    /\ article_title = ""
    /\ article_text = ""
    /\ gemini_response = NoOutcome
    /\ quiz_json = PyNone
    /\ gen_calls = 0
    /\ log = <<>>
    /\ resp = NoResponse

\* the handler returns or raises: its locals are gone and the response is sent
EndRequest(http_response) ==
    /\ pc' = "idle"
    /\ data' = NoRequest
    /\ response' = NoOutcome
    /\ article_title' = ""
    /\ article_text' = ""
    /\ gemini_response' = NoOutcome
    /\ quiz_json' = PyNone
    /\ gen_calls' = 0
    /\ log' = <<>>
    /\ resp' = http_response

\* POST /quiz, main.py:88-92: requests.get
Fetch(W) ==
    /\ pc = "idle"
    /\ Len(history) < W.cap
    /\ \E d \in Requests(W), o \in W.fetches :
        /\ data' = d
        /\ response' = o
    /\ pc' = "extract"
    /\ resp' = NoResponse
    /\ UNCHANGED <<GEMINI_API_KEY, history, article_title, article_text,
                   gemini_response, quiz_json, gen_calls, log>>

\* POST /quiz, main.py:93-168: raise_for_status, extraction, prompt
Extract ==
    /\ pc = "extract"
    /\ IF FetchFails(response)
       THEN EndRequest(HttpError(400, "Failed to fetch URL"))
       ELSE IF ExtractText(response.page, data.number_of_questions) = ""
       THEN EndRequest(HttpError(400, "No article text found in the page"))
       ELSE IF data.difficulty \notin DifficultyKeys
       THEN EndRequest(HttpError(500, "Internal Server Error"))
       ELSE /\ pc' = "generate"
            /\ article_title' = ExtractTitle(response.page)
            /\ article_text' = ExtractText(response.page, data.number_of_questions)
            /\ response' = NoOutcome
            /\ UNCHANGED <<data, gemini_response, quiz_json, gen_calls, log, resp>>
    /\ UNCHANGED <<GEMINI_API_KEY, history>>

\* ApiKeyConfigured without the check
ApiKeyConfigured_always(key) == TRUE

\* if GEMINI_API_KEY:
ApiKeyConfigured(key) == PyTruthy(key)

\* POST /quiz, main.py:171-265: the generation call, parsing and validation
Generate(W) ==
    /\ pc = "generate"
    /\ IF ApiKeyConfigured(GEMINI_API_KEY)
       THEN \E o \in W.generations :
               LET r == GenerationResult(o, data.number_of_questions)
               IN  /\ gen_calls' = gen_calls + 1
                   /\ gemini_response' = o
                   /\ quiz_json' = r.quiz_json
                   /\ log' = Append(log, r.log)
       ELSE /\ gen_calls' = gen_calls
            /\ gemini_response' = NoOutcome
            /\ quiz_json' = PyNone
            /\ log' = Append(log, "no_api_key")
    /\ pc' = "fallback"
    /\ UNCHANGED <<GEMINI_API_KEY, history, data, response, article_title,
                   article_text, resp>>

\* POST /quiz, main.py:268-331: the fallback generator
Fallback ==
    /\ pc = "fallback"
    /\ IF ~PyTruthy(quiz_json)
       THEN /\ quiz_json' = FallbackQuiz(article_text, article_title, data.difficulty,
                                         data.number_of_questions)
            /\ log' = Append(log, "fallback")
       ELSE UNCHANGED <<quiz_json, log>>
    /\ pc' = "shuffle"
    /\ UNCHANGED <<GEMINI_API_KEY, history, data, response, article_title, article_text,
                   gemini_response, gen_calls, resp>>

\* POST /quiz, main.py:333-335: quiz_json["questions"] = shuffle_options(...)
Shuffle(W) ==
    /\ pc = "shuffle"
    /\ IF PyItemRaises(quiz_json, "questions")
       THEN EndRequest(HttpError(500, "Internal Server Error"))
       ELSE IF shuffle_options_raises(quiz_json.v.questions)
       THEN EndRequest(HttpError(500, "Internal Server Error"))
       ELSE /\ \E qs \in shuffle_options(quiz_json.v.questions, W.draws) :
                  quiz_json' = PyDict([quiz_json.v EXCEPT !.questions = qs])
            /\ pc' = "save"
            /\ UNCHANGED <<data, response, article_title, article_text,
                           gemini_response, gen_calls, log, resp>>
    /\ UNCHANGED <<GEMINI_API_KEY, history>>

\* POST /quiz, main.py:337-355: the record is stored and the quiz returned
Save ==
    /\ pc = "save"
    /\ history' = Append(history,
                         QuizHistory(history, data.url, article_title,
                                     json_dumps(quiz_json), Slice(article_text, SummaryChars)))
    /\ EndRequest(QuizResponse(article_title, quiz_json))
    /\ UNCHANGED GEMINI_API_KEY

\* GET /history
GetHistory ==
    /\ pc = "idle"
    /\ resp' = [op |-> "GET /history", status |-> 200, body |-> get_history(history)]
    /\ UNCHANGED <<GEMINI_API_KEY, history, pc, data, response, article_title,
                   article_text, gemini_response, quiz_json, gen_calls, log>>

\* GET /quiz/{quiz_id}
GetQuizDetail(W) ==
    /\ pc = "idle"
    /\ \E quiz_id \in 1..(W.cap + 1) : resp' = get_quiz_detail(history, quiz_id)
    /\ UNCHANGED <<GEMINI_API_KEY, history, pc, data, response, article_title,
                   article_text, gemini_response, quiz_json, gen_calls, log>>

Next(W) ==
    \/ Fetch(W)
    \/ Extract
    \/ Generate(W)
    \/ Fallback
    \/ Shuffle(W)
    \/ Save
    \/ GetHistory
    \/ GetQuizDetail(W)

Spec == Init /\ [][Next(PipelineWorld)]_vars

SpecHistory == Init /\ [][Next(HistoryWorld)]_vars

----------------------------------------------------------------------------
(* The shuffler on its own: shuffle_options applied again and again to a   *)
(* question list, with every permutation as a possible draw.               *)

ShuffleInputs ==
    {<<GoodQ(1)>>, <<NoMatchQ>>, <<DupQ>>, <<DictOptionsQ>>, <<NoAnswerQ>>,
     <<GoodQ(1), DupQ>>}

InitShuffle ==
    /\ GEMINI_API_KEY = PyNone
    /\ history = <<>>
    /\ pc = "shuffle"
    /\ data = NoRequest
    /\ response = NoOutcome
    /\ article_title = ""
    /\ article_text = ""
    /\ gemini_response = NoOutcome
    /\ quiz_json \in {PyDict([questions |-> PyList(qs)]) : qs \in ShuffleInputs}
    /\ gen_calls = 0
    /\ log = <<>>
    /\ resp = NoResponse

Reshuffle ==
    /\ pc = "shuffle"
    /\ \E qs \in shuffle_options(quiz_json.v.questions, "all") :
          quiz_json' = PyDict([quiz_json.v EXCEPT !.questions = qs])
    /\ UNCHANGED <<GEMINI_API_KEY, history, pc, data, response, article_title,
                   article_text, gemini_response, gen_calls, log, resp>>

SpecShuffle == InitShuffle /\ [][Reshuffle]_vars

----------------------------------------------------------------------------
(* Properties.                                                             *)

Range(xs) == {xs[i] : i \in DOMAIN xs}

PostSucceeded == resp.op = "POST /quiz" /\ resp.status = 200

\* the quiz a request at "save" is about to store and return
QuizToReturn == QuizResponse(article_title, quiz_json).body

IsCorrectOption(opt) ==
    opt.py = "dict" /\ "is_correct" \in DOMAIN opt.v /\ opt.v.is_correct = TRUE

CorrectCount(q) ==
    Cardinality({i \in DOMAIN GetOptions(q).v : IsCorrectOption(GetOptions(q).v[i])})

\* ceil(0.6 * n)
Ceil60(n) == (6 * n + 9) \div 10

UsedFallback == "fallback" \in Range(log)

\* C1: every question of a returned quiz has exactly 4 options, exactly one of
\* them marked correct.
C1_ExactlyOneCorrect ==
    PostSucceeded =>
        \A i \in DOMAIN resp.body.questions.v :
            /\ PyLen(GetOptions(resp.body.questions.v[i])) = 4
            /\ CorrectCount(resp.body.questions.v[i]) = 1

\* C2: the returned quiz has exactly number_of_questions questions, or fewer but
\* at least ceil(0.6 * number_of_questions) and then only on the partial-accept
\* path; in particular never more and never zero.
C2_QuestionCount ==
    pc = "save" =>
        LET n == data.number_of_questions
            len == Len(QuizToReturn.questions.v)
        IN  \/ len = n
            \/ /\ len < n
               /\ len >= Ceil60(n)
               /\ len > 0
               /\ "only_got" \in Range(log)

\* C3: once the fetch has produced article text, the request ends with a quiz:
\* no outcome of the generation side ends it with an error.
C3_GenerationNeverFails ==
    [][(pc \in {"generate", "fallback", "shuffle", "save"} /\ pc' = "idle")
          => (resp'.op = "POST /quiz" /\ resp'.status = 200)]_vars

FallbackKeys == {"question", "options", "answer", "difficulty", "explanation"}

\* C4: whenever the fallback generator has run it has produced exactly
\* number_of_questions questions, each with a question text, exactly 4 options,
\* an answer that is one of them, a difficulty and an explanation.
C4_FallbackWellFormed ==
    (pc = "shuffle" /\ UsedFallback) =>
        /\ quiz_json.py = "dict"
        /\ quiz_json.v.questions.py = "list"
        /\ Len(quiz_json.v.questions.v) = data.number_of_questions
        /\ \A i \in DOMAIN quiz_json.v.questions.v :
              LET q == quiz_json.v.questions.v[i]
              IN  /\ q.py = "dict"
                  /\ FallbackKeys \subseteq DOMAIN q.v
                  /\ q.v.question # ""
                  /\ q.v.options.py = "list"
                  /\ Len(q.v.options.v) = 4
                  /\ \E j \in 1..4 : PyEq(q.v.options.v[j], q.v.answer)
                  /\ q.v.difficulty = data.difficulty
                  /\ q.v.explanation # ""

\* a fallback run on a body with no usable sentence, for more than one question
C4_Witness ==
    /\ pc = "shuffle"
    /\ UsedFallback
    /\ data.number_of_questions >= 2
    /\ SelectSeqLonger(SplitDot(article_text), 60) = <<>>

\* requests.get failed, the status is not 2xx, or no paragraph has more than 50 characters
FetchFailedOrEmpty ==
    \/ response.kind # "response"
    \/ response.status \notin 200..299
    \/ \A i \in DOMAIN response.page.p : Len(Strip(response.page.p[i])) <= 50

ParsedReply == ParseReply(gemini_response.raw)

\* C6: the related topics of a returned quiz are the LLM's own list when the
\* accepted reply supplies one, and otherwise [title, "Wikipedia", "General Knowledge"].
C6_TopicsDefault ==
    pc = "save" =>
        IF ~UsedFallback /\ "related_topics" \in DOMAIN ParsedReply.v
        THEN QuizToReturn.related_topics = ParsedReply.v.related_topics
        ELSE QuizToReturn.related_topics = <<article_title, "Wikipedia", "General Knowledge">>

\* C6 as amended: the related topics of a returned quiz are
\* [title, "Wikipedia", "General Knowledge"] for a fallback quiz, the LLM's own
\* list when the accepted reply supplies one, and the empty list for an accepted
\* reply that carries none.
C6_TopicsAmended ==
    pc = "save" =>
        IF UsedFallback
        THEN QuizToReturn.related_topics = <<article_title, "Wikipedia", "General Knowledge">>
        ELSE IF "related_topics" \in DOMAIN ParsedReply.v
        THEN QuizToReturn.related_topics = ParsedReply.v.related_topics
        ELSE QuizToReturn.related_topics = <<>>

\* an accepted LLM quiz whose reply carries no related-topics list
C6_Witness ==
    /\ pc = "save"
    /\ ~UsedFallback
    /\ gemini_response.kind = "text"
    /\ "related_topics" \notin DOMAIN ParsedReply.v

\* the (text, is_correct) pair an option stands for: in {options: [string], answer}
\* form the correct options are those whose text equals answer
OptionPair(q, opt) ==
    IF opt.py = "dict" THEN <<opt.v.text, opt.v.is_correct>>
    ELSE <<opt, "answer" \in DOMAIN q.v /\ PyEq(opt, q.v.answer)>>

PairAt(q, i) == OptionPair(q, GetOptions(q).v[i])

\* the multiset of pairs of a question, as pair -> multiplicity
PairBag(q) ==
    [x \in {PairAt(q, i) : i \in DOMAIN GetOptions(q).v} |->
        Cardinality({i \in DOMAIN GetOptions(q).v : PairAt(q, i) = x})]

PairCorrectCount(q) == Cardinality({i \in DOMAIN GetOptions(q).v : PairAt(q, i)[2]})

\* C7: every application of shuffle_options, the first and any later one, keeps
\* the number of questions and, for each question, the multiset of
\* (text, is_correct) pairs and the number of correct options.
C7_ShuffleIsPermutation ==
    [][/\ Len(quiz_json'.v.questions.v) = Len(quiz_json.v.questions.v)
       /\ \A i \in DOMAIN quiz_json.v.questions.v :
             /\ PairBag(quiz_json'.v.questions.v[i]) = PairBag(quiz_json.v.questions.v[i])
             /\ PairCorrectCount(quiz_json'.v.questions.v[i])
                    = PairCorrectCount(quiz_json.v.questions.v[i])]_vars

\* a converted question whose options were reordered: "D" first, the correct "A" last
C7_Witness ==
    LET q == quiz_json.v.questions.v[1]
    IN  /\ "answer" \notin DOMAIN q.v
        /\ Len(GetOptions(q).v) = 4
        /\ GetOptions(q).v[1].py = "dict"
        /\ GetOptions(q).v[1].v.text = PyStr("D")
        /\ GetOptions(q).v[4].v.text = PyStr("A")
        /\ GetOptions(q).v[4].v.is_correct

C8_State ==
    /\ \A i, j \in DOMAIN history : i # j => history[i].id # history[j].id
    /\ resp.op = "GET /history" =>
          /\ Len(resp.body) = Len(history)
          /\ \A i \in DOMAIN resp.body :
                LET r == history[Len(history) + 1 - i]
                IN  /\ resp.body[i].url = r.url
                    /\ resp.body[i].title = r.title
                    /\ resp.body[i].created_at = ToString(r.id)
                    /\ resp.body[i].quiz_data = json_loads(r.quiz_json)
                    /\ i > 1 => history[Len(history) + 2 - i].id > r.id

C8_Step ==
    /\ \A i \in DOMAIN history : i \in DOMAIN history' /\ history'[i] = history[i]
    /\ IF pc = "save"
       THEN /\ Len(history') = Len(history) + 1
            /\ history'[Len(history')].url = data.url
            /\ history'[Len(history')].title = article_title
            /\ json_loads(history'[Len(history')].quiz_json) = quiz_json
            /\ resp' = [op |-> "POST /quiz", status |-> 200, body |-> QuizToReturn]
       ELSE /\ history' = history
            /\ (resp' .op = "POST /quiz" /\ resp' .status = 200) => resp' = resp

\* C8: the history store holds one record per successful POST /quiz, each with
\* a distinct id and the url, title and quiz it was created with; no step
\* changes or removes a record; GET /history lists every record, newest first,
\* in strictly descending id order.
C8_HistoryAppendOnly == []C8_State /\ [][C8_Step]_vars

\* a listing of two records made for different urls
C8_Witness ==
    /\ resp.op = "GET /history"
    /\ Len(history) = 2
    /\ Len(resp.body) = 2
    /\ history[1].url # history[2].url

\* sentence[:120] followed by an ellipsis when the sentence is longer
Ellipsized(s) == IF Len(s) > 120 THEN SubSeq(s, 1, 120) \o "..." ELSE s

\* the fallback quiz for the sentences ss, fewer than the questions asked for
FallbackShape(ss) ==
    LET n == data.number_of_questions
        qs == quiz_json.v.questions.v
    IN  Len(ss) < n =>
           /\ Len(qs) = n
           /\ \A i \in 1..n :
                 IF i <= Len(ss)
                 THEN /\ qs[i].v.answer = PyStr(Ellipsized(ss[i]))
                      /\ \E j \in DOMAIN qs[i].v.options.v :
                            qs[i].v.options.v[j] = PyStr(Ellipsized(ss[i]))
                 ELSE /\ qs[i].v.question = "What is this Wikipedia article primarily about?"
                      /\ qs[i].v.answer = PyStr(article_title)
                      /\ \E j \in DOMAIN qs[i].v.options.v :
                            qs[i].v.options.v[j] = PyStr(article_title)

\* C9: with k sentences of at least 60 characters and k < number_of_questions,
\* question i < k has the i-th such sentence as its correct option and the
\* remaining questions are the generic one, answered by the article title.
C9_AtLeastSixty ==
    (pc = "shuffle" /\ UsedFallback) =>
        FallbackShape(SelectSeqLonger(SplitDot(article_text), 59))

\* C9 as amended: the same with k counting the sentences of more than 60 characters.
C9_MoreThanSixty ==
    (pc = "shuffle" /\ UsedFallback) =>
        FallbackShape(SelectSeqLonger(SplitDot(article_text), 60))

\* a fallback run with fewer usable sentences than questions, one of them truncated
C9_Witness ==
    /\ pc = "shuffle"
    /\ UsedFallback
    /\ LET ss == SelectSeqLonger(SplitDot(article_text), 60)
       IN  /\ 0 < Len(ss)
           /\ Len(ss) < data.number_of_questions
           /\ \E i \in DOMAIN ss : Len(ss[i]) > 120

GenerationCallFailed ==
    gemini_response.kind \in {"timeout", "connection_error", "status", "bad_envelope"}

\* C10: a request makes at most one generation call; with no API key it makes
\* none and the fallback generator runs; after a failed call the fallback
\* generator runs without a second call.
C10_AtMostOneCall ==
    /\ gen_calls <= 1
    /\ ~PyTruthy(GEMINI_API_KEY) => gen_calls = 0
    /\ (pc \in {"fallback", "shuffle", "save"} /\ PyTruthy(GEMINI_API_KEY)) => gen_calls = 1
    /\ (pc \in {"shuffle", "save"} /\ (~PyTruthy(GEMINI_API_KEY) \/ GenerationCallFailed))
          => UsedFallback

\* the fallback generator has run after a generation call that timed out
C10_Witness ==
    /\ pc = "shuffle"
    /\ gemini_response.kind = "timeout"
    /\ gen_calls = 1
    /\ UsedFallback

\* quiz_json is what validation leaves after running to its end for n questions:
\* a dict whose questions all passed the check at main.py:238, cut or partially
\* accepted by the count rule
IsValidated(qj, n) ==
    /\ qj.py = "dict"
    /\ "questions" \in DOMAIN qj.v
    /\ qj.v.questions.py = "list"
    /\ \A i \in DOMAIN qj.v.questions.v : CheckQuestion(qj.v.questions.v[i]) = "valid"
    /\ Len(qj.v.questions.v) <= n
    /\ \/ "using_valid" \in Range(log)
       \/ "only_got" \in Range(log)

\* C11: where the pipeline decides whether to run the fallback, quiz_json is
\* absent or has completed validation; the shuffler is never handed, and no
\* record or response is built from, a parsed reply whose validation was cut
\* short by an exception.
C11_ValidatedOrAbsent ==
    /\ pc = "fallback" =>
          (quiz_json = PyNone \/ IsValidated(quiz_json, data.number_of_questions))
    /\ (pc = "shuffle" /\ ~UsedFallback) =>
          IsValidated(quiz_json, data.number_of_questions)
    /\ (pc = "save" /\ ~UsedFallback) =>
          ("exception" \notin Range(log)
           /\ ("using_valid" \in Range(log) \/ "only_got" \in Range(log)))

=============================================================================
